---- MODULE Spec2Model ----
(***************************************************************************)
(* Model of layers/box_utils.py: box form conversion (point_form,          *)
(* center_size), overlap (intersect, jaccard), prior matching (match,      *)
(* encode) and the suppression loops (nms, DIOUnms).                       *)
(*                                                                         *)
(* Numbers.  The source computes in floating point.  The model computes    *)
(* the same expressions exactly: coordinates are integers, a quotient is   *)
(* the pair <<numerator, denominator>> with a positive denominator, and a  *)
(* comparison of quotients is a comparison of cross products.  Rounding    *)
(* of the floating point operations is not modelled.  torch.log is kept    *)
(* as a symbolic term over its exact argument.                             *)
(*                                                                         *)
(* Indices.  Tensors are functions over 0..n-1, as in the source; Python   *)
(* lists and the 1-D index tensors order/keep are sequences whose          *)
(* elements are those 0-based indices.                                     *)
(***************************************************************************)
EXTENDS Integers, Sequences, FiniteSets, TLC

(***************************************************************************)
(* Bounds of the model                                                     *)
(***************************************************************************)
\* largest number of boxes handed to nms / DIOUnms
MaxBoxes == 4

\* largest number of ground-truth boxes of an image handed to match
MaxTruths == 2

\* largest number of priors handed to match
MaxPriors == 3

\* number of images whose match calls run interleaved
NumImages == 2

(***************************************************************************)
(* Exact quotients                                                         *)
(***************************************************************************)
Abs(n) == IF n < 0 THEN -n ELSE n

Max2(a, b) == IF a >= b THEN a ELSE b

Min2(a, b) == IF a <= b THEN a ELSE b

RECURSIVE GCD(_, _)
GCD(a, b) == IF b = 0 THEN a ELSE GCD(b, a % b)

\* the quotient n/d, d # 0, in lowest terms with a positive denominator
Rat(n, d) ==
    LET g == GCD(Abs(n), Abs(d))
        s == IF d < 0 THEN -1 ELSE 1
    IN  <<(s * n) \div g, (s * d) \div g>>

RatSub(p, q) == Rat(p[1] * q[2] - q[1] * p[2], p[2] * q[2])

RatAdd(p, q) == Rat(p[1] * q[2] + q[1] * p[2], p[2] * q[2])

RatMul(p, q) == Rat(p[1] * q[1], p[2] * q[2])

RatDiv(p, q) == Rat(p[1] * q[2], p[2] * q[1])

RatLeq(p, q) == p[1] * q[2] <= q[1] * p[2]

RatLt(p, q) == p[1] * q[2] < q[1] * p[2]

Range(s) == {s[k] : k \in DOMAIN s}

\* element d of a sequence under the source's 0-based indexing
At(s, d) == s[d + 1]

\* the elements of a finite set of integers as an ascending sequence
RECURSIVE Ascending(_)
Ascending(S) ==
    IF S = {} THEN <<>>
    ELSE LET m == CHOOSE x \in S : \A y \in S : x <= y
         IN  <<m>> \o Ascending(S \ {m})

(***************************************************************************)
(* Box geometry, lines 31-70.  A box set is a function over 0..n-1.        *)
(***************************************************************************)
\* lines 42-49: the [A,B] matrix of intersection areas
intersect(box_a, box_b) ==
    [i \in DOMAIN box_a, j \in DOMAIN box_b |->
        LET max_x == Min2(box_a[i][3], box_b[j][3])
            max_y == Min2(box_a[i][4], box_b[j][4])
            min_x == Max2(box_a[i][1], box_b[j][1])
            min_y == Max2(box_a[i][2], box_b[j][2])
        IN  Max2(max_x - min_x, 0) * Max2(max_y - min_y, 0)]

\* lines 64-70: the [A,B] matrix of overlaps, each the quotient inter/union
jaccard(box_a, box_b) ==
    LET inter == intersect(box_a, box_b)
    IN  [i \in DOMAIN box_a, j \in DOMAIN box_b |->
            LET area_a == (box_a[i][3] - box_a[i][1]) * (box_a[i][4] - box_a[i][2])
                area_b == (box_b[j][3] - box_b[j][1]) * (box_b[j][4] - box_b[j][2])
                union == area_a + area_b - inter[i, j]
            IN  <<inter[i, j], union>>]

\* the plain IoU of two boxes, by jaccard on one-box sets
IoU(bi, bj) == jaccard([n \in {0} |-> bi], [n \in {0} |-> bj])[0, 0]

(***************************************************************************)
(* State                                                                   *)
(***************************************************************************)
VARIABLES
    bboxes,     \* nms/DIOUnms argument: [0..N-1 -> <<x1, y1, x2, y2>>]
    scores,     \* nms/DIOUnms argument: [0..N-1 -> score]
    threshold,  \* nms/DIOUnms argument: the quotient tau
    top_k,      \* nms/DIOUnms argument
    order,      \* local: the candidate indices still to be visited
    order0,     \* the value order had after line 204 / 256 (sorted, truncated)
    keep,       \* local: the kept indices
    count,      \* local: the number of rounds that kept a box
    pc,         \* position of the nms/DIOUnms call: "idle", "start", "loop", "done"
    calls,      \* the batch indices idx for which match is called
    match_threshold, \* match argument threshold: the quotient theta
    truths,     \* match argument, per call: [0..G-1 -> <<xmin, ymin, xmax, ymax>>]
    labels,     \* match argument, per call: [0..G-1 -> class label]
    priors,     \* match argument, shared: [0..P-1 -> <<cx, cy, w, h>>]
    variances,  \* match argument, shared: <<variances[0], variances[1]>>
    loc_t,      \* output buffer: [slot -> [0..P-1 -> encoded offsets]]
    conf_t,     \* output buffer: [slot -> [0..P-1 -> class id]]
    frame,      \* per call: the locals of match
    mpc,        \* per slot: "idle", "start", "computed", "loc_written", "done", "raised"
    form_in,    \* the box set handed to a form conversion
    form_op,    \* which round trip is applied to it
    form_out,   \* its outcome
    form_pc     \* "idle", "start", "done"

nmsVars == <<bboxes, scores, threshold, top_k, order, order0, keep, count, pc>>

matchVars ==
    <<calls, match_threshold, truths, labels, priors, variances, loc_t, conf_t,
      frame, mpc>>

formVars == <<form_in, form_op, form_out, form_pc>>

vars == <<nmsVars, matchVars, formVars>>

(***************************************************************************)
(* The parts of the state a specification does not exercise stay idle.     *)
(***************************************************************************)
NmsIdle ==
    /\ bboxes = <<>>
    /\ scores = <<>>
    /\ threshold = <<0, 1>>
    /\ top_k = 0
    /\ order = <<>>
    /\ order0 = <<>>
    /\ keep = <<>>
    /\ count = 0
    /\ pc = "idle"

MatchIdle ==
    /\ calls = {}
    /\ match_threshold = <<0, 1>>
    /\ truths = <<>>
    /\ labels = <<>>
    /\ priors = <<>>
    /\ variances = <<>>
    /\ loc_t = <<>>
    /\ conf_t = <<>>
    /\ frame = <<>>
    /\ mpc = <<>>

FormIdle ==
    /\ form_in = <<>>
    /\ form_op = "none"
    /\ form_out = <<>>
    /\ form_pc = "idle"

(***************************************************************************)
(* Box forms, lines 7-28.  A call returns a value or raises.               *)
(***************************************************************************)
Returned(v) == [raised |-> FALSE, val |-> v]

Raised == [raised |-> TRUE, val |-> <<>>]

\* x/2 for the even x the inputs are drawn from
Half(x) == x \div 2

\* torch.cat(tensors, dim=0, *, out=None) takes a tuple of tensors and at
\* most one more positional argument, an int; any other positional
\* argument list is rejected with a TypeError
torch_cat_accepts(positional) ==
    /\ Len(positional) \in 1..2
    /\ positional[1] = "tuple"
    /\ Len(positional) = 2 => positional[2] = "int"

\* lines 15-16: cat((boxes[:, :2] - boxes[:, 2:]/2, boxes[:, :2] + boxes[:, 2:]/2), 1)
point_form(boxes) ==
    IF torch_cat_accepts(<<"tuple", "int">>)
    THEN Returned([n \in DOMAIN boxes |->
            <<boxes[n][1] - Half(boxes[n][3]), boxes[n][2] - Half(boxes[n][4]),
              boxes[n][1] + Half(boxes[n][3]), boxes[n][2] + Half(boxes[n][4])>>])
    ELSE Raised

\* lines 27-28: cat((boxes[:, 2:] + boxes[:, :2])/2, boxes[:, 2:] - boxes[:, :2], 1)
\* the call hands cat three positional arguments: a tensor, a tensor, an int
center_size(boxes) ==
    IF torch_cat_accepts(<<"Tensor", "Tensor", "int">>)
    THEN Returned([n \in DOMAIN boxes |->
            <<Half(boxes[n][3] + boxes[n][1]), Half(boxes[n][4] + boxes[n][2]),
              boxes[n][3] - boxes[n][1], boxes[n][4] - boxes[n][2]>>])
    ELSE Raised

\* f(g(x)): an exception raised by the inner call leaves the outer call unmade
point_form_of(r) == IF r.raised THEN Raised ELSE point_form(r.val)

center_size_of(r) == IF r.raised THEN Raised ELSE center_size(r.val)

FormCoords == {0, 2, 4}

\* one-box sets in corner form, xmin <= xmax, ymin <= ymax
CornerInputs ==
    {[n \in {0} |-> q] : q \in {r \in FormCoords \X FormCoords \X FormCoords \X FormCoords :
                                  r[1] <= r[3] /\ r[2] <= r[4]}}

\* one-box sets in center form, w >= 0, h >= 0
CenterInputs ==
    {[n \in {0} |-> q] : q \in FormCoords \X FormCoords \X FormCoords \X FormCoords}

FormInit ==
    /\ \/ form_op = "corner_center_corner" /\ form_in \in CornerInputs
       \/ form_op = "center_corner_center" /\ form_in \in CenterInputs
    /\ form_out = <<>>
    /\ form_pc = "start"

\* point_form(center_size(b))
corner_center_corner ==
    /\ form_pc = "start"
    /\ form_op = "corner_center_corner"
    /\ form_out' = point_form_of(center_size(form_in))
    /\ form_pc' = "done"
    /\ UNCHANGED <<form_in, form_op, nmsVars, matchVars>>

\* center_size(point_form(c))
center_corner_center ==
    /\ form_pc = "start"
    /\ form_op = "center_corner_center"
    /\ form_out' = center_size_of(point_form(form_in))
    /\ form_pc' = "done"
    /\ UNCHANGED <<form_in, form_op, nmsVars, matchVars>>

FormNext == corner_center_corner \/ center_corner_center

InitForms ==
    /\ FormInit
    /\ NmsIdle
    /\ MatchIdle

SpecForms == InitForms /\ [][FormNext]_vars

(***************************************************************************)
(* Inputs of the suppression functions                                     *)
(***************************************************************************)
\* candidate boxes, corner form, positive area
NmsPool ==
    << <<0, 0, 10, 10>>, <<1, 1, 11, 11>>, <<50, 50, 60, 60>>,
       <<4, 0, 14, 10>>, <<20, 20, 30, 30>> >>

\* scores, in tenths
ScoreSet == {7, 8, 9}

Thresholds == {<<2, 5>>, <<1, 2>>, <<7, 10>>}

DefaultTopK == 200

TopKs == {2, DefaultTopK}

\* box sets: the pool boxes at an index set S, in pool order
BoxSetOf(S) ==
    LET sel == Ascending(S)
    IN  [k \in 0..(Len(sel) - 1) |-> NmsPool[sel[k + 1]]]

BoxSets ==
    {BoxSetOf(S) : S \in {T \in SUBSET (1..Len(NmsPool)) :
                            Cardinality(T) \in 1..MaxBoxes}}

NmsInit ==
    /\ bboxes \in BoxSets
    /\ scores \in [DOMAIN bboxes -> ScoreSet]
    /\ threshold \in Thresholds
    /\ top_k \in TopKs
    /\ order = <<>>
    /\ order0 = <<>>
    /\ keep = <<>>
    /\ count = 0
    /\ pc = "start"

(***************************************************************************)
(* nms, lines 196-230                                                      *)
(***************************************************************************)
x1(b) == b[1]

y1(b) == b[2]

x2(b) == b[3]

y2(b) == b[4]

\* line 202 / 254
areas(b) == (x2(b) - x1(b)) * (y2(b) - y1(b))

\* scores.sort(0, descending=True): every index order with non-increasing
\* scores (the sort is not stable, equal scores may come in either order)
RECURSIVE SortDescending(_, _)
SortDescending(sc, S) ==
    IF S = {} THEN {<<>>}
    ELSE UNION { { <<m>> \o rest : rest \in SortDescending(sc, S \ {m}) } :
                 m \in {x \in S : \A y \in S : sc[x] >= sc[y]} }

\* order[:top_k]
Truncate(o, k) == SubSeq(o, 1, Min2(Len(o), k))

\* lines 215-224: the overlap of kept box i with candidate j, as a quotient
nms_overlap(bi, bj) ==
    LET xx1 == Max2(x1(bj), x1(bi))
        yy1 == Max2(y1(bj), y1(bi))
        xx2 == Min2(x2(bj), x2(bi))
        yy2 == Min2(y2(bj), y2(bi))
        w == Max2(xx2 - xx1, 0)
        h == Max2(yy2 - yy1, 0)
        inter == w * h
    IN  <<inter, areas(bi) + areas(bj) - inter>>

\* line 225: does candidate j stay after a round that kept i
nms_retain(bi, bj, tau) == RatLeq(nms_overlap(bi, bj), tau)

\* line 225: ids, the 0-based positions in order[1:] that stay
nms_ids(o, bb, tau) ==
    {d \in 0..(Len(o) - 2) : nms_retain(bb[At(o, 0)], bb[At(o, d + 1)], tau)}

\* order[ids], the shift by one of line 228 left out
Reindex_noshift(o, ids) ==
    LET sel == Ascending(ids)
    IN  [k \in 1..Len(sel) |-> At(o, sel[k])]

\* line 228: order[ids+1]
Reindex(o, ids) ==
    LET sel == Ascending(ids)
    IN  [k \in 1..Len(sel) |-> At(o, sel[k] + 1)]

\* lines 197-206
nms_sort ==
    /\ pc = "start"
    /\ \E o \in SortDescending(scores, DOMAIN bboxes) :
          /\ order' = Truncate(o, top_k)
          /\ order0' = Truncate(o, top_k)
    /\ keep' = <<>>
    /\ count' = 0
    /\ pc' = "loop"
    /\ UNCHANGED <<bboxes, scores, threshold, top_k, matchVars, formVars>>

\* lines 207-228: one evaluation of the while test and, if it passes, one
\* round of the loop body
nms_round ==
    /\ pc = "loop"
    /\ IF Len(order) = 0 \/ Len(order) = 1
       THEN \* the while test fails, or the break of line 209
            /\ pc' = "done"
            /\ UNCHANGED <<order, keep, count>>
       ELSE LET ids == nms_ids(order, bboxes, threshold)
            IN  /\ count' = count + 1
                /\ keep' = Append(keep, At(order, 0))
                /\ IF ids = {}
                   THEN \* the break of line 227
                        /\ pc' = "done"
                        /\ order' = order
                   ELSE /\ pc' = "loop"
                        /\ order' = Reindex(order, ids)
    /\ UNCHANGED <<bboxes, scores, threshold, top_k, order0, matchVars, formVars>>

NmsNext == nms_sort \/ nms_round

InitNms ==
    /\ NmsInit
    /\ MatchIdle
    /\ FormIdle

SpecNms == InitNms /\ [][NmsNext]_vars

(***************************************************************************)
(* DIOUnms, lines 245-301                                                  *)
(***************************************************************************)
\* line 251: x2 - x1/2.0
center_x(b) == RatSub(<<x2(b), 1>>, <<x1(b), 2>>)

\* line 252: y2 - y1/2.0
center_y(b) == RatSub(<<y2(b), 1>>, <<y1(b), 2>>)

RatSq(p) == RatMul(p, p)

\* lines 281-292: Cdistance of kept box i and candidate j
Cdistance(bi, bj) ==
    LET xxx1 == Max2(Min2(x1(bj), x1(bi)), 0)
        xxx2 == Max2(Min2(x2(bj), x2(bi)), 0)
        yyy1 == Max2(y1(bj), y1(bi))
        yyy2 == Max2(y2(bj), y2(bi))
    IN  (xxx2 - xxx1) * (xxx2 - xxx1) + (yyy2 - yyy1) * (yyy2 - yyy1)

\* line 293: Ddistance of kept box i and candidate j
Ddistance(bi, bj) ==
    RatAdd(RatSq(RatSub(center_x(bi), center_x(bj))),
           RatSq(RatSub(center_y(bi), center_y(bj))))

\* lines 275, 295: overlap - Ddistance/Cdistance
DIOU_overlap(bi, bj) ==
    RatSub(Rat(nms_overlap(bi, bj)[1], nms_overlap(bi, bj)[2]),
           RatDiv(Ddistance(bi, bj), <<Cdistance(bi, bj), 1>>))

\* line 297: does candidate j stay after a round that kept i
DIOU_retain(bi, bj, tau) == RatLeq(DIOU_overlap(bi, bj), tau)

\* line 297: ids
DIOU_ids(o, bb, tau) ==
    {d \in 0..(Len(o) - 2) : DIOU_retain(bb[At(o, 0)], bb[At(o, d + 1)], tau)}

\* lines 246-258
DIOUnms_sort ==
    /\ pc = "start"
    /\ \E o \in SortDescending(scores, DOMAIN bboxes) :
          /\ order' = Truncate(o, top_k)
          /\ order0' = Truncate(o, top_k)
    /\ keep' = <<>>
    /\ count' = 0
    /\ pc' = "loop"
    /\ UNCHANGED <<bboxes, scores, threshold, top_k, matchVars, formVars>>

\* lines 259-300: one evaluation of the while test and, if it passes, one
\* round of the loop body
DIOUnms_round ==
    /\ pc = "loop"
    /\ IF Len(order) = 0 \/ Len(order) = 1
       THEN \* the while test fails, or the break of line 261
            /\ pc' = "done"
            /\ UNCHANGED <<order, keep, count>>
       ELSE LET ids == DIOU_ids(order, bboxes, threshold)
            IN  /\ count' = count + 1
                /\ keep' = Append(keep, At(order, 0))
                /\ IF ids = {}
                   THEN \* the break of line 299
                        /\ pc' = "done"
                        /\ order' = order
                   ELSE /\ pc' = "loop"
                        /\ order' = Reindex(order, ids)
    /\ UNCHANGED <<bboxes, scores, threshold, top_k, order0, matchVars, formVars>>

DIOUNext == DIOUnms_sort \/ DIOUnms_round

InitDIOUnms ==
    /\ NmsInit
    /\ MatchIdle
    /\ FormIdle

SpecDIOUnms == InitDIOUnms /\ [][DIOUNext]_vars

(***************************************************************************)
(* encode, lines 135-156                                                   *)
(***************************************************************************)
\* torch.log(x) / v for the exact quotients x and v, kept as a term
LogOver(x, v) == [log |-> x, over |-> v]

\* lines 149-156, for one prior p: <<g_cx, g_cy, g_w, g_h>>
encode_row(m, p, var) ==
    LET g_cx == RatDiv(RatSub(Rat(m[1] + m[3], 2), <<p[1], 1>>), RatMul(var[1], <<p[3], 1>>))
        g_cy == RatDiv(RatSub(Rat(m[2] + m[4], 2), <<p[2], 1>>), RatMul(var[1], <<p[4], 1>>))
        g_w == LogOver(Rat(m[3] - m[1], p[3]), var[2])
        g_h == LogOver(Rat(m[4] - m[2], p[4]), var[2])
    IN  <<g_cx, g_cy, g_w, g_h>>

encode(matched, pri, var) ==
    [p \in DOMAIN pri |-> encode_row(matched[p], pri[p], var)]

(***************************************************************************)
(* match, lines 74-132                                                     *)
(***************************************************************************)
\* overlaps.max(1): for every row an index of a maximal entry (any of them
\* when several entries are maximal)
max_dim1_idx(ov, G, P) ==
    {f \in [0..(G - 1) -> 0..(P - 1)] :
        \A g \in 0..(G - 1), p \in 0..(P - 1) : RatLeq(ov[g, p], ov[g, f[g]])}

\* overlaps.max(0): for every column an index of a maximal entry
max_dim0_idx(ov, G, P) ==
    {f \in [0..(P - 1) -> 0..(G - 1)] :
        \A g \in 0..(G - 1), p \in 0..(P - 1) : RatLeq(ov[g, p], ov[f[p], p])}

\* a tensor left as it is, the index_fill_ of line 111 left out
index_fill_skipped(t, index, value) == t

\* line 111: t.index_fill_(0, index, value)
index_fill(t, index, value) ==
    [p \in DOMAIN t |-> IF p \in Range(index) THEN value ELSE t[p]]

RECURSIVE ForceFrom(_, _, _)
ForceFrom(bti, bpi, j) ==
    IF j \notin DOMAIN bpi THEN bti
    ELSE ForceFrom([bti EXCEPT ![bpi[j]] = j], bpi, j + 1)

RECURSIVE ForceDownFrom(_, _, _)
ForceDownFrom(bti, bpi, j) ==
    IF j \notin DOMAIN bpi THEN bti
    ELSE ForceDownFrom([bti EXCEPT ![bpi[j]] = j], bpi, j - 1)

\* the loop of lines 116-117 run from the last ground truth down to the first
force_best_prior_descending(bti, bpi) ==
    ForceDownFrom(bti, bpi, Cardinality(DOMAIN bpi) - 1)

\* lines 116-117: for j in range(G): best_truth_idx[best_prior_idx[j]] = j
force_best_prior(bti, bpi) == ForceFrom(bti, bpi, 0)

\* line 124: labels[best_truth_idx] + 1
gather_conf(lab, bti) == [p \in DOMAIN bti |-> lab[bti[p]] + 1]

\* conf[best_truth_overlap <= threshold] = 0
label_background_inclusive(conf, bto, th) ==
    [p \in DOMAIN conf |-> IF RatLeq(bto[p], th) THEN 0 ELSE conf[p]]

\* line 127: conf[best_truth_overlap < threshold] = 0
label_background(conf, bto, th) ==
    [p \in DOMAIN conf |-> IF RatLt(bto[p], th) THEN 0 ELSE conf[p]]

\* lines 94-130 after the two max calls picked the indices bpi and bti0
match_locals(th, tru, pri, var, lab, bpi, bti0) ==
    LET overlaps == jaccard(tru, point_form(pri).val)
        bto0 == [p \in DOMAIN pri |-> overlaps[bti0[p], p]]
        bto == index_fill(bto0, bpi, <<2, 1>>)
        bti == force_best_prior(bti0, bpi)
        matches == [p \in DOMAIN pri |-> tru[bti[p]]]
        conf == label_background(gather_conf(lab, bti), bto, th)
    IN  [best_prior_idx |-> bpi, best_truth_idx |-> bti, best_truth_overlap |-> bto,
         conf |-> conf, loc |-> encode(matches, pri, var)]

NoFrame ==
    [best_prior_idx |-> <<>>, best_truth_idx |-> <<>>, best_truth_overlap |-> <<>>,
     conf |-> <<>>, loc |-> <<>>]

\* every slot of a buffer overwritten, as by buf[:] = value
assign_every_slot(buf, i, value) == [s \in DOMAIN buf |-> value]

\* lines 131, 132: buf[idx] = value
assign_slot(buf, i, value) == [buf EXCEPT ![i] = value]

\* lines 94-130 of the call for batch index i.  With no ground truth the
\* overlaps tensor has shape [0, P] and overlaps.max(0), line 103, raises:
\* the reduced dimension is empty.
match_compute(i) ==
    /\ mpc[i] = "start"
    /\ LET G == Cardinality(DOMAIN truths[i])
           P == Cardinality(DOMAIN priors)
           overlaps == jaccard(truths[i], point_form(priors).val)
       IN  IF G = 0
           THEN /\ mpc' = [mpc EXCEPT ![i] = "raised"]
                /\ frame' = frame
           ELSE /\ \E bpi \in max_dim1_idx(overlaps, G, P) :
                   \E bti0 \in max_dim0_idx(overlaps, G, P) :
                      frame' = [frame EXCEPT ![i] =
                                   match_locals(match_threshold, truths[i], priors,
                                                variances, labels[i], bpi, bti0)]
                /\ mpc' = [mpc EXCEPT ![i] = "computed"]
    /\ UNCHANGED <<calls, match_threshold, truths, labels, priors, variances,
                   loc_t, conf_t, nmsVars, formVars>>

\* line 131: loc_t[idx] = loc
match_write_loc(i) ==
    /\ mpc[i] = "computed"
    /\ loc_t' = assign_slot(loc_t, i, frame[i].loc)
    /\ mpc' = [mpc EXCEPT ![i] = "loc_written"]
    /\ UNCHANGED <<calls, match_threshold, truths, labels, priors, variances,
                   conf_t, frame, nmsVars, formVars>>

\* line 132: conf_t[idx] = conf, and the return
match_write_conf(i) ==
    /\ mpc[i] = "loc_written"
    /\ conf_t' = assign_slot(conf_t, i, frame[i].conf)
    /\ mpc' = [mpc EXCEPT ![i] = "done"]
    /\ UNCHANGED <<calls, match_threshold, truths, labels, priors, variances,
                   loc_t, frame, nmsVars, formVars>>

MatchNext ==
    \/ \E i \in calls : match_compute(i)
    \/ \E i \in calls : match_write_loc(i)
    \/ \E i \in calls : match_write_conf(i)

(***************************************************************************)
(* Inputs of match                                                         *)
(***************************************************************************)
\* priors, center form, even sizes
PriorPool ==
    << <<2, 2, 4, 4>>, <<6, 2, 4, 4>>, <<2, 1, 4, 2>>, <<10, 2, 4, 4>> >>

\* ground-truth boxes, corner form, positive area
TruthPool == {<<0, 0, 4, 4>>, <<1, 0, 5, 4>>, <<2, 0, 6, 4>>}

\* class labels of the ground-truth boxes
Labels == {0, 1}

MatchThresholds == {<<0, 1>>, <<1, 4>>, <<1, 2>>, <<1, 1>>}

\* the conventional variance pair (0.1, 0.2)
Variances == << <<1, 10>>, <<1, 5>> >>

PriorSetOf(S) ==
    LET sel == Ascending(S)
    IN  [k \in 0..(Len(sel) - 1) |-> PriorPool[sel[k + 1]]]

PriorSets ==
    {PriorSetOf(S) : S \in {T \in SUBSET (1..Len(PriorPool)) :
                              Cardinality(T) \in 1..MaxPriors}}

\* ground-truth box sets: up to MaxTruths distinct boxes, in every order
TruthSets ==
    UNION {{t \in [0..(G - 1) -> TruthPool] :
               \A a, b \in 0..(G - 1) : a # b => t[a] # t[b]} : G \in 0..MaxTruths}

\* the buffers as the caller allocates them, before any match call
UnwrittenLoc(P) ==
    [p \in 0..(P - 1) |->
        << <<0, 1>>, <<0, 1>>, LogOver(<<1, 1>>, <<1, 1>>), LogOver(<<1, 1>>, <<1, 1>>) >>]

UnwrittenConf(P) == [p \in 0..(P - 1) |-> -1]

\* one match call, for the image at batch index idx of a batch of two
MatchInit ==
    /\ \E idx \in 0..1 :
          /\ calls = {idx}
          /\ mpc = [s \in 0..1 |-> IF s = idx THEN "start" ELSE "idle"]
          /\ \E t \in TruthSets :
                /\ truths = [s \in 0..1 |-> IF s = idx THEN t ELSE <<>>]
                /\ \E l \in [DOMAIN t -> Labels] :
                      labels = [s \in 0..1 |-> IF s = idx THEN l ELSE <<>>]
    /\ match_threshold \in MatchThresholds
    /\ priors \in PriorSets
    /\ variances = Variances
    /\ loc_t = [s \in 0..1 |-> UnwrittenLoc(Cardinality(DOMAIN priors))]
    /\ conf_t = [s \in 0..1 |-> UnwrittenConf(Cardinality(DOMAIN priors))]
    /\ frame = [s \in 0..1 |-> NoFrame]

InitMatch ==
    /\ MatchInit
    /\ NmsIdle
    /\ FormIdle

SpecMatch == InitMatch /\ [][MatchNext]_vars

ZeroBased(s) == [k \in 0..(Len(s) - 1) |-> s[k + 1]]

Image(t, l) == [truths |-> ZeroBased(t), labels |-> ZeroBased(l)]

\* the images of a batch
BatchImages ==
    { Image(<< >>, << >>),
      Image(<< <<0, 0, 4, 4>> >>, <<0>>),
      Image(<< <<0, 0, 4, 4>>, <<1, 0, 5, 4>> >>, <<0, 1>>),
      Image(<< <<2, 0, 6, 4>> >>, <<1>>) }

BatchPriorSets == {PriorSetOf({1, 2}), PriorSetOf({1, 2, 3})}

\* the loop over a batch of NumImages images: one match call per image, each
\* with its own idx, over buffers with one slot more than there are calls
BatchInit ==
    /\ calls = 0..(NumImages - 1)
    /\ mpc = [s \in 0..NumImages |-> IF s < NumImages THEN "start" ELSE "idle"]
    /\ \E img \in [0..(NumImages - 1) -> BatchImages] :
          /\ truths = [s \in 0..NumImages |-> IF s < NumImages THEN img[s].truths ELSE <<>>]
          /\ labels = [s \in 0..NumImages |-> IF s < NumImages THEN img[s].labels ELSE <<>>]
    /\ match_threshold = <<1, 2>>
    /\ priors \in BatchPriorSets
    /\ variances = Variances
    /\ loc_t = [s \in 0..NumImages |-> UnwrittenLoc(Cardinality(DOMAIN priors))]
    /\ conf_t = [s \in 0..NumImages |-> UnwrittenConf(Cardinality(DOMAIN priors))]
    /\ frame = [s \in 0..NumImages |-> NoFrame]

InitBatch ==
    /\ BatchInit
    /\ NmsIdle
    /\ FormIdle

SpecBatch == InitBatch /\ [][MatchNext]_vars

(***************************************************************************)
(* Properties of match                                                     *)
(***************************************************************************)
\* the plain IoU of ground truth g of call i with prior p
TruthPriorIoU(i, g, p) ==
    IoU(truths[i][g], point_form([n \in {0} |-> priors[p]]).val[0])

Returns(i) == i \in calls /\ mpc[i] = "done"

\* C2: after match every ground-truth box g has a prior p assigned to it:
\* best_truth_idx[p] = g and conf_t[idx][p] = labels[g] + 1.  Stated for
\* the calls with at least as many priors as ground truths, where such an
\* assignment exists.
C2_EveryTruthAssigned ==
    \A i \in DOMAIN mpc :
        (Returns(i) /\ Cardinality(DOMAIN truths[i]) <= Cardinality(DOMAIN priors)) =>
            \A g \in DOMAIN truths[i] :
                \E p \in DOMAIN priors :
                    /\ frame[i].best_truth_idx[p] = g
                    /\ conf_t[i][p] = labels[i][g] + 1

\* C3: after match, for every ground truth g the prior best_prior_idx[g], a
\* prior of maximal IoU with g, has a confidence target other than 0.
C3_Reciprocity ==
    \A i \in DOMAIN mpc :
        Returns(i) =>
            \A g \in DOMAIN truths[i] :
                LET bp == frame[i].best_prior_idx[g]
                IN  /\ \A p \in DOMAIN priors :
                          RatLeq(TruthPriorIoU(i, g, p), TruthPriorIoU(i, g, bp))
                    /\ conf_t[i][bp] # 0

\* a call returned in which the best prior of a ground truth overlaps it by
\* less than theta, and two ground truths share their best prior
C3_Witness ==
    \E i \in DOMAIN mpc :
        /\ Returns(i)
        /\ \E g \in DOMAIN truths[i] :
              RatLt(TruthPriorIoU(i, g, frame[i].best_prior_idx[g]), match_threshold)
        /\ \E g1, g2 \in DOMAIN truths[i] :
              g1 # g2 /\ frame[i].best_prior_idx[g1] = frame[i].best_prior_idx[g2]

\* the ground truths whose best prior is p
Claimants(i, p) == {g \in DOMAIN truths[i] : frame[i].best_prior_idx[g] = p}

SetMax(S) == CHOOSE x \in S : \A y \in S : y <= x

\* C4: when several ground truths have the same best prior p, the one with
\* the highest index wins: best_truth_idx[p] is that index, conf_t[idx][p]
\* is its label + 1 and loc_t[idx][p] is the encoding of its box.
C4_LastWriteWins ==
    \A i \in DOMAIN mpc :
        Returns(i) =>
            \A p \in DOMAIN priors :
                Claimants(i, p) # {} =>
                    LET g_max == SetMax(Claimants(i, p))
                    IN  /\ frame[i].best_truth_idx[p] = g_max
                        /\ conf_t[i][p] = labels[i][g_max] + 1
                        /\ loc_t[i][p] = encode_row(truths[i][g_max], priors[p], variances)

\* a call returned in which two ground truths with different boxes and
\* labels have the same best prior
C4_Witness ==
    \E i \in DOMAIN mpc :
        /\ Returns(i)
        /\ \E p \in DOMAIN priors :
              \E g1, g2 \in Claimants(i, p) :
                  /\ g1 < g2
                  /\ labels[i][g1] # labels[i][g2]
                  /\ truths[i][g1] # truths[i][g2]

\* prior p has the unique maximum IoU with the only ground truth, above theta
UniqueBest(i, p) ==
    /\ DOMAIN truths[i] = {0}
    /\ RatLt(match_threshold, TruthPriorIoU(i, 0, p))
    /\ \A q \in DOMAIN priors \ {p} : RatLt(TruthPriorIoU(i, 0, q), TruthPriorIoU(i, 0, p))

\* C5: with one ground truth whose IoU has a unique maximum above theta at
\* prior p*, conf_t[idx][p*] = label + 1, and every other prior gets 0 when
\* its IoU is below theta and label + 1 otherwise.
C5_BackgroundRule ==
    \A i \in DOMAIN mpc :
        Returns(i) =>
            \A p \in DOMAIN priors :
                UniqueBest(i, p) =>
                    /\ conf_t[i][p] = labels[i][0] + 1
                    /\ conf_t[i][p] # 0
                    /\ \A q \in DOMAIN priors \ {p} :
                          conf_t[i][q] =
                              IF RatLt(TruthPriorIoU(i, 0, q), match_threshold)
                              THEN 0 ELSE labels[i][0] + 1

\* a call returned with a unique best prior, another prior below theta and
\* another prior at or above theta
C5_Witness ==
    \E i \in DOMAIN mpc :
        /\ Returns(i)
        /\ \E p \in DOMAIN priors :
              /\ UniqueBest(i, p)
              /\ \E q \in DOMAIN priors \ {p} :
                    RatLt(TruthPriorIoU(i, 0, q), match_threshold)
              /\ \E q \in DOMAIN priors \ {p} :
                    ~ RatLt(TruthPriorIoU(i, 0, q), match_threshold)

\* C10: a match call with no ground truth completes without an error and
\* writes conf_t[idx][p] = 0 for every prior p.
C10_EmptyTruthsAllBackground ==
    \A i \in DOMAIN mpc :
        (i \in calls /\ truths[i] = <<>> /\ mpc[i] \in {"done", "raised"}) =>
            /\ mpc[i] = "done"
            /\ \A p \in DOMAIN priors : conf_t[i][p] = 0

\* what a match call for slot i run on its own may leave in slot i
SequentialResult(i, loc_row, conf_row) ==
    LET G == Cardinality(DOMAIN truths[i])
        P == Cardinality(DOMAIN priors)
        overlaps == jaccard(truths[i], point_form(priors).val)
    IN  IF G = 0
        THEN loc_row = UnwrittenLoc(P) /\ conf_row = UnwrittenConf(P)
        ELSE \E bpi \in max_dim1_idx(overlaps, G, P) :
             \E bti0 \in max_dim0_idx(overlaps, G, P) :
                LET r == match_locals(match_threshold, truths[i], priors, variances,
                                      labels[i], bpi, bti0)
                IN  loc_row = r.loc /\ conf_row = r.conf

\* C7: a step of a match call changes no slot of loc_t and conf_t but its
\* own slot idx and leaves truths, priors and labels as they were; and when
\* the interleaved calls of a batch have all ended, every slot of a call
\* holds what that call run alone leaves there and every other slot is as
\* the caller allocated it.
C7_DisjointSlots ==
    /\ [][/\ truths' = truths /\ priors' = priors /\ labels' = labels
          /\ \A s \in DOMAIN mpc :
                (loc_t'[s] # loc_t[s] \/ conf_t'[s] # conf_t[s]) =>
                    (s \in calls /\ mpc'[s] # mpc[s])]_vars
    /\ []((\A i \in calls : mpc[i] \in {"done", "raised"}) =>
            \A s \in DOMAIN mpc :
                IF s \in calls
                THEN SequentialResult(s, loc_t[s], conf_t[s])
                ELSE /\ loc_t[s] = UnwrittenLoc(Cardinality(DOMAIN priors))
                     /\ conf_t[s] = UnwrittenConf(Cardinality(DOMAIN priors)))

\* both calls of a batch returned, each having written its own slot
C7_Witness ==
    /\ Cardinality(calls) >= 2
    /\ \A i \in calls :
          /\ mpc[i] = "done"
          /\ conf_t[i] # UnwrittenConf(Cardinality(DOMAIN priors))
          /\ loc_t[i] # UnwrittenLoc(Cardinality(DOMAIN priors))
    /\ \E i, j \in calls : conf_t[i] # conf_t[j]

(***************************************************************************)
(* Properties of the box forms                                             *)
(***************************************************************************)
\* C6: both round trips of the box forms return their input:
\* point_form(center_size(b)) = b for a corner-form box set b and
\* center_size(point_form(c)) = c for a center-form box set c, as a value
\* and not as an error.
C6_RoundTrip ==
    form_pc = "done" => form_out = Returned(form_in)

(***************************************************************************)
(* Properties of the suppression functions                                 *)
(***************************************************************************)
\* C1: when nms returns, count is the number of kept indices and a
\* candidate of the sorted, truncated order is kept if and only if its IoU
\* with every kept candidate before it in that order is at most tau (the
\* greedy suppression result).
C1_GreedyResult ==
    pc = "done" =>
        /\ count = Len(keep)
        /\ \A p \in 1..Len(order0) :
              (order0[p] \in Range(keep)) <=>
                  (\A q \in 1..(p - 1) :
                      order0[q] \in Range(keep) =>
                          RatLeq(IoU(bboxes[order0[q]], bboxes[order0[p]]), threshold))

DIoU_center(b) == <<Rat(x1(b) + x2(b), 2), Rat(y1(b) + y2(b), 2)>>

DIoU_d2(bi, bj) ==
    RatAdd(RatSq(RatSub(DIoU_center(bi)[1], DIoU_center(bj)[1])),
           RatSq(RatSub(DIoU_center(bi)[2], DIoU_center(bj)[2])))

DIoU_c2(bi, bj) ==
    LET ew == Max2(x2(bi), x2(bj)) - Min2(x1(bi), x1(bj))
        eh == Max2(y2(bi), y2(bj)) - Min2(y1(bi), y1(bj))
    IN  ew * ew + eh * eh

DIoU_stays(bi, bj, tau) ==
    RatLeq(RatSub(IoU(bi, bj), RatDiv(DIoU_d2(bi, bj), <<DIoU_c2(bi, bj), 1>>)), tau)

\* C9: in every round of DIOUnms that goes on to another round, a remaining
\* candidate j stays in order if and only if IoU(i,j) - d^2/c^2 <= tau, with
\* d the distance of the box centers ((x1+x2)/2, (y1+y2)/2) and c the
\* diagonal of the smallest box enclosing both.
C9_RetentionTest ==
    [][(pc = "loop" /\ Len(order) > 1 /\ pc' = "loop") =>
          \A d \in 0..(Len(order) - 2) :
              (At(order, d + 1) \in Range(order')) <=>
                  DIoU_stays(bboxes[At(order, 0)], bboxes[At(order, d + 1)], threshold)]_vars

====
